---- MODULE Spec2Model ----
(***************************************************************************)
(* A model of panmk (src/panmk.py): the platform classifier, hook         *)
(* resolution in main(), the one-shot modes, and the continuous watch      *)
(* loop with the viewer process it supervises.                             *)
(*                                                                         *)
(* The interpreter's position is pc; every action is one statement of the  *)
(* source (a hook call is one statement).  The environment touches or      *)
(* removes the source file, lets a viewer exit on its own, and delivers    *)
(* the user's interrupt (KeyboardInterrupt) at the current statement.      *)
(***************************************************************************)
EXTENDS Integers, Sequences, FiniteSets, TLC

VARIABLES
    pc,              \* the statement about to run
    system,          \* what platform.system() returns on this host
    platform,        \* main: platform = get_platform()
    action,          \* args['action']: "p", "pv" or "pvc"
    newViewer,       \* args['new-viewer']
    confExt,         \* conf.get(ext) is a non-empty table
    hookVal,         \* what eval(conf[ext].get(name, 'None')) does, per hook name
    load_file,       \* the resolved hooks
    reload_file,
    pre_reload_file,
    meta,            \* the source file's os.stat() value
    touches,         \* how many times the environment changed the file
    pre,             \* continuous: pre
    quiet,           \* the latest poll saw no difference
    procs,           \* every viewer process launched so far
    proc,            \* continuous: proc, an index into procs (0: not bound)
    output,          \* continuous/main: output
    diag,            \* the last call_pandoc printed diagnostics
    log,             \* what the session did, in order
    exc,             \* the exception that ended the session, if any
    exitCode         \* the process's exit status once pc = "exited"

vars == <<pc, system, platform, action, newViewer, confExt, hookVal, load_file,
          reload_file, pre_reload_file, meta, touches, pre, quiet, procs,
          proc, output, diag, log, exc, exitCode>>

confVars == <<system, platform, action, newViewer, confExt, hookVal>>
hookVars == <<load_file, reload_file, pre_reload_file>>
fileVars == <<meta, touches>>

----------------------------------------------------------------------------
(* Bounds *)

MaxTouches == 2     \* changes the environment makes to the source file
MaxSegments == 2    \* pieces a host OS name is put together from

----------------------------------------------------------------------------
(* Program constants *)

DEATH_DELAY == 5
SIGHUP == 1
SIGINFO == 29

None == <<"None">>
NoExit == 0 - 1
OutputFile == "out.pdf"

Platforms == {"windows", "cygin", "darwin", "bsd", "linux"}
Unbound == ""       \* a name that has not been assigned yet
Actions == {"p", "pv", "pvc"}
HookNames == {"load_file", "reload_file", "pre_reload_file"}

\* Outcomes of eval(conf[ext].get(name, 'None')): the entry is absent (the
\* default 'None' evaluates to None), the expression raises an error (an
\* Exception: NameError, SyntaxError, ...), the expression asks the
\* interpreter to exit (SystemExit, which is not an Exception), or it
\* evaluates to one of the built-in hooks / a user's lambda.
Raises == <<"raises">>
Exits == <<"SystemExit">>
Builtin(name) == <<name>>
CustomLoader == <<"lambda x: [viewer, x]">>
NoOp == <<"lambda x: None">>
HookValues ==
    [load_file       |-> {None, Raises, Exits, CustomLoader},
     reload_file     |-> {None, Raises, Exits, Builtin("hard_restart"),
                          Builtin("do_nothing")},
     pre_reload_file |-> {None, Raises, Exits, Builtin("pre_reload_kill_proc")}]

\* The settings values that evaluate without raising.  What a session does
\* after main depends on the resolved hooks only, so the sessions are
\* explored from these (hard_restart being the default reloader of
\* windows); hook resolution is explored from all of HookValues.
SessionHookValues ==
    [n \in HookNames |->
        HookValues[n] \ {Raises, Exits, Builtin("hard_restart")}]

\* continuous: pre = None; os.stat() values are compared as tuples
Unobserved == <<>>
os_stat(m) == <<m>>

----------------------------------------------------------------------------
(* Host OS names and the platform classifier *)

\* A host OS name is a string, modelled as the sequence of its characters.
Upper == <<"A", "B", "C", "D", "E", "F", "G", "H", "I", "J", "K", "L", "M",
           "N", "O", "P", "Q", "R", "S", "T", "U", "V", "W", "X", "Y", "Z">>
Lower == <<"a", "b", "c", "d", "e", "f", "g", "h", "i", "j", "k", "l", "m",
           "n", "o", "p", "q", "r", "s", "t", "u", "v", "w", "x", "y", "z">>

\* str.lower()
lower(s) ==
    [i \in 1..Len(s) |->
        IF \E k \in 1..Len(Upper) : Upper[k] = s[i]
        THEN Lower[CHOOSE k \in 1..Len(Upper) : Upper[k] = s[i]]
        ELSE s[i]]

\* sub in s, for strings
contains(sub, s) ==
    \E i \in 0..(Len(s) - Len(sub)) : SubSeq(s, i + 1, i + Len(sub)) = sub

\* get_platform: platforms = ['windows', 'cygin', 'darwin', 'bsd']
platforms == <<"windows", "cygin", "darwin", "bsd">>
Chars ==
    [windows |-> <<"w", "i", "n", "d", "o", "w", "s">>,
     cygin   |-> <<"c", "y", "g", "i", "n">>,
     darwin  |-> <<"d", "a", "r", "w", "i", "n">>,
     bsd     |-> <<"b", "s", "d">>]

\* for plat in platforms: if plat in platform: return plat; else 'linux'
RECURSIVE first_contained(_, _)
first_contained(i, name) ==
    IF i > Len(platforms) THEN "linux"
    ELSE IF contains(Chars[platforms[i]], name) THEN platforms[i]
    ELSE first_contained(i + 1, name)

\* (the classifier without the lower-casing of the name)
get_platform_caseSensitive(name) == first_contained(1, name)

get_platform(name) == first_contained(1, lower(name))

\* Pieces of host OS names: what platform.system() reports on common hosts,
\* and fragments that form or miss a tag when put next to each other.
Segments ==
    {<<"W", "i", "n", "d", "o", "w", "s">>,
     <<"D", "a", "r", "w", "i", "n">>,
     <<"F", "r", "e", "e", "B", "S", "D">>,
     <<"L", "i", "n", "u", "x">>,
     <<"C", "Y", "G", "W", "I", "N", "_", "N", "T">>,
     <<"c", "y", "g", "i", "n">>,
     <<"W", "I", "N">>,
     <<"d", "o", "w", "s">>,
     <<"-">>}

RECURSIVE Joined(_)
Joined(n) ==
    IF n = 0 THEN {<<>>}
    ELSE Joined(n - 1) \cup {a \o b : a \in Joined(n - 1), b \in Segments}

\* every name of up to MaxSegments pieces
HostNames == Joined(MaxSegments)

\* one host per tag, for the sessions
SessionHosts ==
    {<<"W", "i", "n", "d", "o", "w", "s">>,
     <<"D", "a", "r", "w", "i", "n">>,
     <<"F", "r", "e", "e", "B", "S", "D">>,
     <<"L", "i", "n", "u", "x">>,
     <<"c", "y", "g", "i", "n">>}

----------------------------------------------------------------------------
(* Pure functions of the source *)

get_loader_cmd(plat, x) ==
    IF plat = "windows" THEN <<"start", x>>
    ELSE IF plat = "cygin" THEN <<"cmd", "/c", "start", x>>
    ELSE IF plat = "darwin" THEN <<"open", x>>
    ELSE <<"xdg-open", x>>

\* the returned lambda, lambda x: subprocess.run(cmd(x)), closes over the
\* platform's command
get_file_loader(plat) == <<"get_file_loader", plat>>
IsDefaultLoader(hook) == hook[1] = "get_file_loader"

send_signal(signal) == <<"send_signal", signal>>

\* (the reloader table without 'cygin' in its last branch: the function
\* falls off its end and returns None for that tag)
get_file_reloader_linuxOnly(plat) ==
    IF plat = "windows" THEN Builtin("hard_restart")
    ELSE IF plat \in {"darwin", "bsd"} THEN send_signal(SIGINFO)
    ELSE IF plat = "linux" THEN send_signal(SIGHUP)
    ELSE None

get_file_reloader(plat) ==
    IF plat = "windows" THEN Builtin("hard_restart")
    ELSE IF plat \in {"darwin", "bsd"} THEN send_signal(SIGINFO)
    ELSE IF plat \in {"linux", "cygin"} THEN send_signal(SIGHUP)
    ELSE None

\* (hook evaluation without the except clause: the error gets out)
eval_or_default_noExcept(hasTable, val, default) ==
    IF hasTable
    THEN IF val = Raises \/ val = Exits THEN Exits
         ELSE IF val = None THEN default
         ELSE val
    ELSE default

\* `eval(...) or default` inside try/except Exception, under `if conf.get(ext)`.
\* The result Exits stands for the SystemExit that the except clause lets
\* through.
eval_or_default(hasTable, val, default) ==
    IF hasTable
    THEN IF val = Raises THEN default
         ELSE IF val = Exits THEN Exits
         ELSE IF val = None THEN default
         ELSE val
    ELSE default

resolve_load_file(plat, hasTable, val) ==
    eval_or_default(hasTable, val, get_file_loader(plat))

\* (reload resolution without the else branch of lines 331-333: no table,
\* no reloader)
resolve_reload_file_noElse(plat, nv, hasTable, val, loader) ==
    IF nv THEN loader
    ELSE IF hasTable
    THEN eval_or_default(hasTable, val, get_file_reloader(plat))
    ELSE None

resolve_reload_file(plat, nv, hasTable, val, loader) ==
    IF nv THEN loader
    ELSE eval_or_default(hasTable, val, get_file_reloader(plat))

resolve_pre_reload_file(nv, hasTable, val) ==
    IF nv THEN Builtin("pre_reload_kill_proc")
    ELSE eval_or_default(hasTable, val, NoOp)

----------------------------------------------------------------------------
(* Viewer processes *)

NewProc(args) == [args |-> args, alive |-> TRUE]
Dead(ps, i) == [ps EXCEPT ![i].alive = FALSE]
Alive(ps) == {i \in 1..Len(ps) : ps[i].alive}

\* The outcome of a call: the processes afterwards, what was logged, the
\* exception raised ("none" when the call returns).
Outcome(ps, ev, e) == [procs |-> ps, ev |-> ev, exc |-> e]

do_nothing(ps, h) == {Outcome(ps, <<>>, "none")}

\* proc.send_signal(signal): nothing is sent to a process that has exited;
\* a live viewer either handles the signal or is ended by it.
deliver(ps, h, signal) ==
    IF ps[h].alive
    THEN {Outcome(ps, <<<<"signal", h, signal>>>>, "none"),
          Outcome(Dead(ps, h), <<<<"signal", h, signal>>>>, "none")}
    ELSE {Outcome(ps, <<>>, "none")}

pre_reload_kill_proc(ps, h) ==
    {Outcome(Dead(ps, h), <<<<"kill", h, 0>>>>, "none")}

\* hard_restart(proc): terminate, wait(timeout=DEATH_DELAY), kill, Popen(args).
\* wait raises TimeoutExpired when the process is still running after the
\* delay; the new Popen object is bound to the function's local name only.
hard_restart(ps, h) ==
    LET args == ps[h].args
        exited == Outcome(Append(Dead(ps, h), NewProc(args)),
                          <<<<"terminate", h, 0>>, <<"wait", h, DEATH_DELAY>>,
                            <<"kill", h, 0>>, <<"Popen", Len(ps) + 1, 0>>>>,
                          "none")
        timeout == Outcome(ps, <<<<"terminate", h, 0>>,
                                 <<"wait", h, DEATH_DELAY>>>>,
                           "TimeoutExpired")
    IN  IF ps[h].alive THEN {exited, timeout} ELSE {exited}

\* load_file(x) for the platform default: subprocess.run(cmd(x)) starts the
\* platform's opener, which leaves a viewer running; with a Popen object as
\* x the argument list is rejected before anything is started.
default_loader(hook, ps, x, isPath) ==
    IF isPath
    THEN {Outcome(Append(ps, NewProc(get_loader_cmd(hook[2], x))),
                  <<<<"run", Len(ps) + 1, 0>>>>, "none")}
    ELSE {Outcome(ps, <<>>, "TypeError")}

\* A hook called as hook(proc) on the handle h.
CallHook(hook, ps, h) ==
    IF hook = Builtin("hard_restart") THEN hard_restart(ps, h)
    ELSE IF hook = Builtin("pre_reload_kill_proc") THEN pre_reload_kill_proc(ps, h)
    ELSE IF hook = Builtin("do_nothing") \/ hook = NoOp THEN do_nothing(ps, h)
    ELSE IF hook = send_signal(SIGINFO) THEN deliver(ps, h, SIGINFO)
    ELSE IF hook = send_signal(SIGHUP) THEN deliver(ps, h, SIGHUP)
    ELSE IF IsDefaultLoader(hook) THEN default_loader(hook, ps, h, FALSE)
    ELSE IF hook = CustomLoader THEN {Outcome(ps, <<>>, "none")}
    ELSE {Outcome(ps, <<>>, "TypeError")}

----------------------------------------------------------------------------
(* The session *)

Unset == <<"unset">>

\* The state when main starts, on a host drawn from hosts and for settings
\* values drawn from values.  Entries that main does not read (no table for
\* the extension; the reload entries under --new-viewer) are left absent.
InitWith(values, hosts) ==
    /\ pc = "get_platform"
    /\ system \in hosts
    /\ platform = Unbound
    /\ action \in Actions
    /\ newViewer \in BOOLEAN
    /\ confExt \in BOOLEAN
    /\ hookVal \in [HookNames -> UNION {values[n] : n \in HookNames}]
    /\ \A n \in HookNames : hookVal[n] \in values[n]
    /\ (~confExt => \A n \in HookNames : hookVal[n] = None)
    /\ (newViewer => hookVal.reload_file = None /\ hookVal.pre_reload_file = None)
    /\ load_file = Unset
    /\ reload_file = Unset
    /\ pre_reload_file = Unset
    /\ meta = 0
    /\ touches = 0
    /\ pre = Unobserved
    /\ quiet = FALSE
    /\ procs = <<>>
    /\ proc = 0
    /\ output = ""
    /\ diag = FALSE
    /\ log = <<>>
    /\ exc = "none"
    /\ exitCode = NoExit

Init == InitWith(SessionHookValues, SessionHosts)
InitResolve == InitWith(HookValues, SessionHosts)

\* The classifier on its own: every host name, one fixed command line
InitPlatform ==
    /\ InitWith(SessionHookValues, HostNames)
    /\ action = "p"
    /\ ~newViewer
    /\ ~confExt

Raise(e) ==
    /\ pc' = "exited"
    /\ exc' = e
    /\ exitCode' = IF e = "KeyboardInterrupt" THEN 130 ELSE 1

Return0 ==
    /\ pc' = "exited"
    /\ exitCode' = 0
    /\ UNCHANGED exc

\* main, line 268: platform = get_platform()
main_get_platform ==
    /\ pc = "get_platform"
    /\ platform' = get_platform(system)
    /\ pc' = "main"
    /\ UNCHANGED <<system, action, newViewer, confExt, hookVal, hookVars,
                   fileVars, pre, quiet, procs, proc, output, diag, log,
                   exc, exitCode>>

\* main, lines 306-342: resolve the three hooks, then dispatch on the action
main ==
    /\ pc = "main"
    /\ LET lf == resolve_load_file(platform, confExt, hookVal.load_file)
           rf == resolve_reload_file(platform, newViewer, confExt,
                                     hookVal.reload_file, lf)
           pf == resolve_pre_reload_file(newViewer, confExt,
                                         hookVal.pre_reload_file)
       IN  IF lf = Exits
           THEN /\ Raise("SystemExit")
                /\ UNCHANGED hookVars
           ELSE IF rf = Exits
           THEN /\ Raise("SystemExit")
                /\ load_file' = lf
                /\ UNCHANGED <<reload_file, pre_reload_file>>
           ELSE IF pf = Exits
           THEN /\ Raise("SystemExit")
                /\ load_file' = lf
                /\ reload_file' = rf
                /\ UNCHANGED pre_reload_file
           ELSE /\ load_file' = lf
                /\ reload_file' = rf
                /\ pre_reload_file' = pf
                /\ pc' = IF action = "p" THEN "p_compile"
                         ELSE IF action = "pv" THEN "pv_compile"
                         ELSE "c_compile"
                /\ UNCHANGED <<exc, exitCode>>
    /\ UNCHANGED <<confVars, fileVars, pre, quiet, procs, proc, output,
                   diag, log>>

\* (call_pandoc as if subprocess.run had check=True: a failing pandoc
\* raises CalledProcessError)
call_pandoc_checked(next) ==
    /\ \E d \in BOOLEAN :
          /\ diag' = d
          /\ pc' = IF d THEN "exited" ELSE next
          /\ exc' = IF d THEN "CalledProcessError" ELSE exc
    /\ output' = OutputFile
    /\ log' = Append(log, <<"call_pandoc", 0, 0>>)
    /\ UNCHANGED <<confVars, hookVars, fileVars, pre, quiet, procs, proc>>

\* call_pandoc: run pandoc, print its stderr if any, return the output name
call_pandoc(next) ==
    /\ \E d \in BOOLEAN : diag' = d
    /\ output' = OutputFile
    /\ log' = Append(log, <<"call_pandoc", 0, 0>>)
    /\ pc' = next
    /\ UNCHANGED <<confVars, hookVars, fileVars, pre, quiet, procs,
                   proc, exc>>

\* (compile-only falling through to the viewer launch of line 340)
CompileOnly_thenLoads ==
    /\ pc = "p_compile"
    /\ call_pandoc("pv_load")
    /\ UNCHANGED exitCode

\* main, lines 337 and 344
CompileOnly ==
    /\ pc = "p_compile"
    /\ call_pandoc("exited")
    /\ exitCode' = 0

\* main, line 339
PreviewCompile ==
    /\ pc = "pv_compile"
    /\ call_pandoc("pv_load")
    /\ UNCHANGED exitCode

\* main, lines 340 and 344: load_file(output); return 0
PreviewLoad ==
    /\ pc = "pv_load"
    /\ \E o \in (IF IsDefaultLoader(load_file)
                  THEN default_loader(load_file, procs, output, TRUE)
                  ELSE {Outcome(procs, <<>>, "none")}) :
          /\ procs' = o.procs
          /\ log' = log \o o.ev
    /\ Return0
    /\ UNCHANGED <<confVars, hookVars, fileVars, pre, quiet, proc,
                   output, diag>>

\* continuous, line 241: output = call_pandoc(...)
InitialCompile ==
    /\ pc = "c_compile"
    /\ call_pandoc("c_launch")
    /\ UNCHANGED exitCode

\* get_reloadable(path, load_file): subprocess.Popen(load_file(path)).
\* The platform default loader runs the opener itself and returns a
\* CompletedProcess, which Popen rejects as an argument list; a loader that
\* returns a command line has that command started by Popen.
get_reloadable(path, loader, ps) ==
    IF IsDefaultLoader(loader)
    THEN {[procs |-> o.procs, ev |-> o.ev, exc |-> "TypeError", handle |-> 0] :
            o \in default_loader(loader, ps, path, TRUE)}
    ELSE {[procs |-> Append(ps, NewProc(<<"viewer", path>>)),
           ev |-> <<<<"Popen", Len(ps) + 1, 0>>>>,
           exc |-> "none", handle |-> Len(ps) + 1]}

\* continuous, line 242: proc = get_reloadable(output, load_file)
InitialLaunch ==
    /\ pc = "c_launch"
    /\ \E o \in get_reloadable(output, load_file, procs) :
          /\ procs' = o.procs
          /\ log' = log \o o.ev
          /\ IF o.exc = "none"
             THEN /\ proc' = o.handle
                  /\ pc' = "poll"
                  /\ UNCHANGED <<exc, exitCode>>
             ELSE /\ Raise(o.exc)
                  /\ UNCHANGED proc
    /\ UNCHANGED <<confVars, hookVars, fileVars, pre, quiet, output, diag>>

\* (a loop that records the new stat value only after the sequence has
\* run, not before it)
PollChanged_recordsLate ==
    /\ pc = "poll"
    /\ os_stat(meta) # pre
    /\ quiet' = FALSE
    /\ log' = Append(log, <<"poll", 1, meta>>)
    /\ pc' = "pre_reload"
    /\ UNCHANGED <<confVars, hookVars, fileVars, pre, procs, proc, output,
                   diag, exc, exitCode>>

\* (a loop that starts the sequence at the recompile)
PollChanged_skipsPreReload ==
    /\ pc = "poll"
    /\ os_stat(meta) # pre
    /\ pre' = os_stat(meta)
    /\ quiet' = FALSE
    /\ log' = Append(log, <<"poll", 1, meta>>)
    /\ pc' = "recompile"
    /\ UNCHANGED <<confVars, hookVars, fileVars, procs, proc, output, diag,
                   exc, exitCode>>

\* continuous, lines 246-248: cur = os.stat(...); if cur != pre: pre = cur
PollChanged ==
    /\ pc = "poll"
    /\ os_stat(meta) # pre
    /\ pre' = os_stat(meta)
    /\ quiet' = FALSE
    /\ log' = Append(log, <<"poll", 1, meta>>)
    /\ pc' = "pre_reload"
    /\ UNCHANGED <<confVars, hookVars, fileVars, procs, proc, output, diag,
                   exc, exitCode>>

\* (a loop that runs the sequence whatever the comparison says)
PollSame_runsSequence ==
    /\ pc = "poll"
    /\ os_stat(meta) = pre
    /\ quiet' = TRUE
    /\ pc' = "pre_reload"
    /\ UNCHANGED <<confVars, hookVars, fileVars, pre, procs, proc,
                   output, diag, log, exc, exitCode>>

\* continuous, lines 246-247 and back to 244: nothing differs, poll again.
\* sleep(1), line 256, is indented as the statement after the while loop,
\* and the loop has no break: no step of the loop runs it (a step that did
\* would log <<"sleep", 1, 0>>).
PollSame ==
    /\ pc = "poll"
    /\ os_stat(meta) = pre
    /\ quiet' = TRUE
    /\ UNCHANGED <<pc, confVars, hookVars, fileVars, pre, procs, proc,
                   output, diag, log, exc, exitCode>>

\* continuous, line 246: os.stat raises when the file is gone at that moment
PollFails ==
    /\ pc = "poll"
    /\ Raise("FileNotFoundError")
    /\ UNCHANGED <<confVars, hookVars, fileVars, pre, quiet, procs, proc,
                   output, diag, log>>

\* A hook statement of the inner try block: hook(proc)
\* (a hook call whose caller rebinds its handle to the process the hook
\* started, as in proc = reload_file(proc))
HookStep_rebinds(name, hook, next) ==
    \E o \in CallHook(hook, procs, proc) :
       /\ procs' = o.procs
       /\ proc' = IF Len(o.procs) > Len(procs) THEN Len(o.procs) ELSE proc
       /\ log' = Append(log, <<name, proc, 0>>) \o o.ev
       /\ IF o.exc = "none"
          THEN /\ pc' = next
               /\ UNCHANGED <<exc, exitCode>>
          ELSE Raise(o.exc)
       /\ UNCHANGED <<confVars, hookVars, fileVars, pre, quiet, output, diag>>

HookStep(name, hook, next) ==
    \E o \in CallHook(hook, procs, proc) :
       /\ procs' = o.procs
       /\ log' = Append(log, <<name, proc, 0>>) \o o.ev
       /\ IF o.exc = "none"
          THEN /\ pc' = next
               /\ UNCHANGED <<exc, exitCode>>
          ELSE Raise(o.exc)
       /\ UNCHANGED <<confVars, hookVars, fileVars, pre, quiet, proc, output,
                      diag>>

\* continuous, line 251
PreReload ==
    /\ pc = "pre_reload"
    /\ HookStep("pre_reload_file", pre_reload_file, "recompile")

\* continuous, line 252
Recompile ==
    /\ pc = "recompile"
    /\ call_pandoc("reload")
    /\ UNCHANGED exitCode

\* continuous, line 253
Reload ==
    /\ pc = "reload"
    /\ HookStep("reload_file", reload_file, "poll")

InnerTry == {"pre_reload", "recompile", "reload"}
Unguarded == {"p_compile", "pv_compile", "pv_load", "c_compile", "c_launch"}

\* (a loop with the outer handler only: any interrupt ends it)
InterruptInner_endsLoop ==
    /\ pc \in InnerTry
    /\ Return0
    /\ log' = Append(log, <<"KeyboardInterrupt", 0, 0>>)
    /\ UNCHANGED <<confVars, hookVars, fileVars, pre, quiet, procs, proc,
                   output, diag>>

\* continuous, lines 254-255: except KeyboardInterrupt: pass
InterruptInner ==
    /\ pc \in InnerTry
    /\ pc' = "poll"
    /\ log' = Append(log, <<"KeyboardInterrupt", 0, 0>>)
    /\ UNCHANGED <<confVars, hookVars, fileVars, pre, quiet, procs, proc,
                   output, diag, exc, exitCode>>

\* continuous, lines 257-258: except KeyboardInterrupt: pass; continuous
\* returns and main returns 0 (line 344)
InterruptOuter ==
    /\ pc = "poll"
    /\ Return0
    /\ log' = Append(log, <<"KeyboardInterrupt", 1, 0>>)
    /\ UNCHANGED <<confVars, hookVars, fileVars, pre, quiet, procs, proc,
                   output, diag>>

\* lines 241-242 and 337-340 are inside no try block
InterruptUncaught ==
    /\ pc \in Unguarded
    /\ Raise("KeyboardInterrupt")
    /\ log' = Append(log, <<"KeyboardInterrupt", 2, 0>>)
    /\ UNCHANGED <<confVars, hookVars, fileVars, pre, quiet, procs, proc,
                   output, diag>>

----------------------------------------------------------------------------
(* The environment *)

\* The file's stat value is read by the poll statement only, and a viewer's
\* liveness by the hooks that the poll starts, so the environment's steps
\* are taken while the loop is at the poll statement.
Running == pc = "poll"

\* the user saves the source file: its stat value changes
Touch ==
    /\ Running
    /\ touches < MaxTouches
    /\ touches' = touches + 1
    /\ meta' = meta + 1
    /\ UNCHANGED <<pc, confVars, hookVars, pre, quiet, procs, proc, output,
                   diag, log, exc, exitCode>>

\* the viewer behind the loop's handle exits on its own (the user closes it)
ViewerExits ==
    /\ Running
    /\ proc \in Alive(procs)
    /\ procs' = Dead(procs, proc)
    /\ UNCHANGED <<pc, confVars, hookVars, fileVars, pre, quiet, proc, output,
                   diag, log, exc, exitCode>>

Next ==
    \/ main_get_platform
    \/ main
    \/ CompileOnly
    \/ PreviewCompile
    \/ PreviewLoad
    \/ InitialCompile
    \/ InitialLaunch
    \/ PollChanged
    \/ PollSame
    \/ PollFails
    \/ PreReload
    \/ Recompile
    \/ Reload
    \/ InterruptInner
    \/ InterruptOuter
    \/ InterruptUncaught
    \/ Touch
    \/ ViewerExits

Spec == Init /\ [][Next]_vars

\* Hook resolution on its own: main from every settings value
NextResolve == main_get_platform \/ main
SpecResolve == InitResolve /\ [][NextResolve]_vars

\* The platform classifier on its own: get_platform on every host name,
\* and the hooks main resolves for the tag it returns
NextPlatform == main_get_platform \/ main
SpecPlatform == InitPlatform /\ [][NextPlatform]_vars

----------------------------------------------------------------------------
(* Reading the log *)

IsCall(e) == e[1] \in {"pre_reload_file", "call_pandoc", "reload_file"}
IsChange(e) == e[1] = "poll" /\ e[2] = 1
IsInnerInterrupt(e) == e[1] = "KeyboardInterrupt" /\ e[2] = 0

Count(l, Test(_)) == Len(SelectSeq(l, Test))

\* the stat values seen by the polls that saw a difference, in order
Changes == SelectSeq(log, IsChange)
Observed == [i \in 1..Len(Changes) |-> Changes[i][3]]

\* the log from the latest poll that saw a difference (<<>> before any)
LastChange ==
    IF Changes = <<>> THEN 0
    ELSE CHOOSE i \in 1..Len(log) :
            /\ IsChange(log[i])
            /\ \A j \in (i + 1)..Len(log) : ~IsChange(log[j])
Iteration ==
    LET from == LastChange
    IN  IF from = 0 THEN <<>> ELSE SubSeq(log, from + 1, Len(log))
IterationCalls == SelectSeq(Iteration, IsCall)
IterationInterrupted == \E i \in 1..Len(Iteration) : IsInnerInterrupt(Iteration[i])

\* the three calls of lines 251-253 on the loop's handle
FullSequence == <<<<"pre_reload_file", proc, 0>>, <<"call_pandoc", 0, 0>>,
                  <<"reload_file", proc, 0>>>>

NumChanges == Count(log, IsChange)
NumInnerInterrupts == Count(log, IsInnerInterrupt)
NumPreReload == Count(log, LAMBDA e : e[1] = "pre_reload_file")
NumReload == Count(log, LAMBDA e : e[1] = "reload_file")
NumCompile == Count(log, LAMBDA e : e[1] = "call_pandoc")

----------------------------------------------------------------------------
(* Claims *)

\* C1: a poll that sees the stat value differ from pre starts the sequence
\* pre_reload_file(proc), call_pandoc, reload_file(proc): the calls made
\* since that poll are always the first calls of that sequence, in that
\* order and on the loop's handle, with no other hook or compile call among
\* them, and once the iteration is over (no user interrupt having cut it)
\* they are exactly the three calls, once each.
C1_ChangeRunsOneOrderedSequence ==
    LET iteration == Iteration
        calls == SelectSeq(iteration, IsCall)
        cut == \E i \in 1..Len(iteration) : IsInnerInterrupt(iteration[i])
    IN  Changes # <<>> =>
        /\ pc \in {"poll", "pre_reload", "recompile", "reload", "exited"}
        /\ pc = "pre_reload" => calls = <<>>
        /\ pc = "recompile" => calls = SubSeq(FullSequence, 1, 1)
        /\ pc = "reload" => calls = SubSeq(FullSequence, 1, 2)
        /\ (pc \in {"poll", "exited"} /\ ~cut) => calls = FullSequence
        /\ (pc \in {"poll", "exited"} /\ cut)
              => \E k \in 0..2 : calls = SubSeq(FullSequence, 1, k)

\* C1 witness: the second differing poll of a session (after a touch) has
\* run its three calls and the loop is polling again
C1_Witness ==
    /\ pc = "poll"
    /\ NumChanges = 2
    /\ touches >= 1
    /\ ~IterationInterrupted
    /\ IterationCalls = FullSequence

\* C2: a reload is issued if and only if a poll saw the stat value differ
\* from pre.  Only if: every run of the sequence was started by a poll whose
\* value differed from the one observed before it, so no hook or compile
\* call is made for a poll that saw the same value (the calls never
\* outnumber the differing polls).  If: whenever the loop is back at the
\* poll or has ended, every differing poll has had its reload_file call,
\* except the ones a user interrupt cut short.
C2_ReloadIffMetadataDiffers ==
    LET seen == Observed
        n == Len(seen)
        reloads == NumReload
    IN  action = "pvc" =>
        /\ \A i \in 2..n : seen[i] # seen[i - 1]
        /\ pre = IF n = 0 THEN Unobserved ELSE os_stat(seen[n])
        /\ NumPreReload <= n
        /\ reloads <= n
        /\ NumCompile <= n + 1
        /\ pc \in {"poll", "exited"} => reloads + NumInnerInterrupts = n

\* C2 witness: two differing polls have each issued their reload, and the
\* polls after them that saw the same value have issued nothing
C2_Witness ==
    /\ pc = "poll"
    /\ quiet
    /\ os_stat(meta) = pre
    /\ NumChanges = 2
    /\ NumReload = 2
    /\ NumPreReload = 2
    /\ NumCompile = 3

NumKill == Count(log, LAMBDA e : e[1] = "kill")
NumSignal == Count(log, LAMBDA e : e[1] = "signal")
NumLaunch == Count(log, LAMBDA e : e[1] \in {"Popen", "run"})
Last(l) == l[Len(l)]
InLoop == pc \in {"poll"} \cup InnerTry

\* C3 (as claimed): while the watch loop runs, at most one viewer process
\* launched by the session is alive, and it is the one behind the loop's
\* handle proc.
C3_AtMostOneLiveViewerHeldByLoop ==
    InLoop => /\ Cardinality(Alive(procs)) <= 1
              /\ Alive(procs) \subseteq {proc}

\* C4 (as claimed): a hard_restart whose wait runs out of its grace period
\* goes on to kill and relaunch: every wait is followed by the kill of the
\* same process and a Popen, and TimeoutExpired never ends the session.
C4_TimeoutEscalatesToKill ==
    /\ exc # "TimeoutExpired"
    /\ \A i \in 1..Len(log) :
          log[i][1] = "wait" =>
              /\ i + 2 <= Len(log)
              /\ log[i + 1] = <<"kill", log[i][2], 0>>
              /\ log[i + 2][1] = "Popen"

\* C5 (as claimed): every hard_restart leaves the process it was applied to
\* dead and has started exactly one new process with the same command line.
C5_HardRestartAlwaysRelaunches ==
    \A i \in 1..Len(log) :
        log[i][1] = "terminate" =>
            LET h == log[i][2]
                started == {j \in i..Len(log) :
                              /\ j <= i + 3
                              /\ log[j][1] = "Popen"}
            IN  /\ ~procs[h].alive
                /\ Cardinality(started) = 1
                /\ \A j \in started : procs[log[j][2]].args = procs[h].args

\* C6: a user interrupt delivered while line 251, 252 or 253 is running is
\* caught there: the remaining calls of that iteration are not made, the
\* loop is polling again, and the handle and the processes are as they
\* were; a user interrupt delivered at the poll ends the loop, and the
\* session with it (status 0).
C6_TwoTierInterruption ==
    [][(/\ Len(log') = Len(log) + 1
        /\ Last(log')[1] = "KeyboardInterrupt")
       => /\ pc \in InnerTry =>
                /\ pc' = "poll"
                /\ proc' = proc
                /\ procs' = procs
                /\ pre' = pre
                /\ SelectSeq(log', IsCall) = SelectSeq(log, IsCall)
                /\ exitCode' = NoExit
                /\ exc' = "none"
          /\ pc = "poll" =>
                /\ pc' = "exited"
                /\ exitCode' = 0
                /\ exc' = "none"]_vars

\* C6 witness: an interrupt cut an iteration short, the loop went on to see
\* a later change with its handle still bound, and an interrupt at the
\* poll then ended the session
C6_Witness ==
    /\ pc = "exited"
    /\ exitCode = 0
    /\ proc # 0
    /\ Len(log) > 0
    /\ Last(log) = <<"KeyboardInterrupt", 1, 0>>
    /\ \E i, j \in 1..Len(log) :
          /\ i < j
          /\ IsInnerInterrupt(log[i])
          /\ IsChange(log[j])

\* C7 (as claimed): in a continuous session a user interrupt never gets
\* out as an uncaught KeyboardInterrupt, and a session it ends has status 0.
C7_CancellationExitsZero ==
    action = "pvc" =>
        /\ exc # "KeyboardInterrupt"
        /\ (pc = "exited" /\ Len(log) > 0
               /\ Last(log)[1] = "KeyboardInterrupt") => exitCode = 0

\* C8 (as claimed): with --new-viewer, once the file has been changed twice
\* and the loop, never interrupted, has seen the latest change and is
\* polling again, the session has made exactly two kills of the current
\* viewer, each followed by the launch of a new viewer on the output path
\* (two launches besides the initial one), and has sent no signal.
C8_NewViewerTwoKillLaunchPairs ==
    (/\ action = "pvc"
     /\ newViewer
     /\ pc = "poll"
     /\ touches = 2
     /\ pre = os_stat(meta)
     /\ NumChanges >= 2
     /\ NumInnerInterrupts = 0)
    => /\ NumKill = 2
       /\ NumLaunch = 1 + 2
       /\ NumSignal = 0
       /\ \A i \in 1..Len(log) :
             log[i][1] = "kill" =>
                 /\ i < Len(log)
                 /\ \E j \in (i + 1)..Len(log) :
                       /\ log[j][1] \in {"Popen", "run"}
                       /\ Last(procs[log[j][2]].args) = output

\* C9 (as claimed): on darwin with the default hooks, a continuous session
\* gets through its initial compile and launch, runs no sequence before
\* the file is touched, and, with the file touched once, has run exactly
\* one pre-reload (no-op), recompile, SIGINFO sequence when it ends.
C9_DarwinTouchedOnceOneSequence ==
    (action = "pvc" /\ platform = "darwin" /\ ~confExt /\ ~newViewer) =>
        /\ touches = 0 => NumPreReload = 0
        /\ (pc = "exited" /\ exc # "KeyboardInterrupt") =>
              /\ exc = "none"
              /\ proc # 0
              /\ touches = 1 =>
                    /\ NumChanges = 1
                    /\ NumPreReload = 1
                    /\ NumReload = 1
                    /\ NumCompile = 2
                    /\ \A i \in 1..Len(log) :
                          log[i][1] = "signal" => log[i][3] = SIGINFO

\* C10: once main has resolved the hooks, a hook whose settings value
\* raised an error when evaluated is the platform default for its role
\* (the platform's loader, the platform's reloader, the no-op), and the
\* error has not ended the start-up: the session goes on to its action.
C10_RaisingHookFallsBackToDefault ==
    (pc \notin {"get_platform", "main"} /\ confExt) =>
        /\ hookVal.load_file = Raises =>
              load_file = get_file_loader(platform)
        /\ (~newViewer /\ hookVal.load_file # Exits
               /\ hookVal.reload_file = Raises) =>
              reload_file = get_file_reloader(platform)
        /\ (~newViewer /\ hookVal.load_file # Exits
               /\ hookVal.reload_file # Exits
               /\ hookVal.pre_reload_file = Raises) =>
              pre_reload_file = NoOp
        /\ (\A n \in HookNames : hookVal[n] # Exits) =>
              /\ exc # "SystemExit"
              /\ Unset \notin {load_file, reload_file, pre_reload_file}

\* C10 witness: all three settings values raised, and main has gone on to
\* the session's first compile with the three defaults
C10_Witness ==
    /\ pc \in {"p_compile", "pv_compile", "c_compile"}
    /\ confExt
    /\ ~newViewer
    /\ \A n \in HookNames : hookVal[n] = Raises
    /\ load_file = get_file_loader(platform)
    /\ reload_file = get_file_reloader(platform)
    /\ pre_reload_file = NoOp

\* main has resolved the three hooks
Resolved == pc \notin {"get_platform", "main"}

\* C11 as stated: with no settings table for the output's extension (an
\* output without extension has none), the resolved load, reload and
\* pre-reload hooks are the platform's launcher, the platform's reloader
\* and the no-op.
C11_NoTableGivesPlatformDefaults ==
    (Resolved /\ ~confExt) =>
        /\ load_file = get_file_loader(platform)
        /\ reload_file = get_file_reloader(platform)
        /\ pre_reload_file = NoOp

\* C11, amended: with no settings table for the output's extension the
\* load hook is the platform's launcher; without --new-viewer the reload
\* and pre-reload hooks are the platform's reloader and the no-op, and
\* with --new-viewer they are the load hook and the viewer kill.
C11_NoTableGivesDefaultsUnlessNewViewer ==
    (Resolved /\ ~confExt) =>
        /\ load_file = get_file_loader(platform)
        /\ ~newViewer =>
              /\ reload_file = get_file_reloader(platform)
              /\ reload_file # None
              /\ pre_reload_file = NoOp
        /\ newViewer =>
              /\ reload_file = load_file
              /\ pre_reload_file = Builtin("pre_reload_kill_proc")

\* C11 witness: no table, no --new-viewer, and main has resolved the three
\* hooks to the defaults of a BSD host
C11_Witness ==
    /\ Resolved
    /\ ~confExt
    /\ ~newViewer
    /\ platform = "bsd"
    /\ load_file = get_file_loader("bsd")
    /\ reload_file = send_signal(SIGINFO)
    /\ pre_reload_file = NoOp

\* C12: a compile that fails (pandoc prints diagnostics) does not end the
\* watch session.  Right after such a compile the session is still running
\* and stands at the statement that follows it (the viewer launch after
\* the first compile, the reload hook after a recompile); and once the
\* loop is past an iteration that no user interrupt cut, the reload hook
\* was the last call of that iteration, so the loop polls on and the next
\* differing poll recompiles.
C12_FailedCompileIsNotFatal ==
    LET iteration == Iteration
        calls == SelectSeq(iteration, IsCall)
        cut == \E i \in 1..Len(iteration) : IsInnerInterrupt(iteration[i])
    IN  (action = "pvc" /\ diag /\ log # <<>>) =>
        /\ Last(log)[1] = "call_pandoc" =>
              /\ pc \in {"c_launch", "reload"}
              /\ exitCode = NoExit
              /\ exc = "none"
        /\ (Changes # <<>> /\ ~cut /\ pc \notin InnerTry) =>
              /\ calls # <<>>
              /\ Last(calls) = <<"reload_file", proc, 0>>
        /\ exc # "none" => Last(log)[1] # "call_pandoc"

\* C12 witness: the recompile of the first change failed, the reload hook
\* ran after it, and on the second change the loop has called the
\* pre-reload hook and is about to recompile again
C12_Witness ==
    /\ pc = "recompile"
    /\ diag
    /\ exitCode = NoExit
    /\ NumChanges = 2
    /\ NumInnerInterrupts = 0
    /\ NumCompile = 2
    /\ NumReload = 1
    /\ NumPreReload = 2

\* C13: a watch session that has entered its loop ends only by the user's
\* interrupt: once it has ended, no exception ended it, its status is 0 and
\* the last thing that happened is the interrupt caught around the loop.
\* No timeout of a viewer's termination, no signal to a viewer that is
\* gone and no failure of os.stat ends it.
C13_LoopEndsOnlyByInterrupt ==
    (action = "pvc" /\ proc # 0 /\ pc = "exited") =>
        /\ exc = "none"
        /\ exitCode = 0
        /\ Last(log) = <<"KeyboardInterrupt", 1, 0>>

\* C14: a compile-only session (action p) makes one compile call and
\* nothing else: it never launches a viewer and never signals or kills a
\* process, and when it has run to its end (no user interrupt having
\* stopped it) it has compiled exactly once and its exit status is 0,
\* whether or not pandoc printed diagnostics.
C14_CompileOnlyCompilesOnceExitsZero ==
    action = "p" =>
        /\ NumCompile <= 1
        /\ procs = <<>>
        /\ proc = 0
        /\ \A i \in 1..Len(log) :
              log[i][1] \in {"call_pandoc", "KeyboardInterrupt"}
        /\ (pc = "exited" /\ exc # "KeyboardInterrupt") =>
              /\ NumCompile = 1
              /\ exc = "none"
              /\ exitCode = 0

\* C14 witness: a compile-only session has ended with status 0 after its
\* one compile, which printed diagnostics
C14_Witness ==
    /\ action = "p"
    /\ pc = "exited"
    /\ diag
    /\ log = <<<<"call_pandoc", 0, 0>>>>
    /\ exitCode = 0

\* C15: the classifier returns one tag for every host OS name: the name
\* is lower-cased (same length, no upper-case letter left, letters kept)
\* and the tags windows, cygin, darwin, bsd are tried in that order by
\* substring containment; the result is the first tag of that order the
\* lower-cased name contains, whatever later tags it also contains and
\* wherever in the name they stand, and linux when it contains none.
C15_ClassifierFirstContainedTagWins ==
    pc # "get_platform" =>
        LET name == lower(system)
            hit == {i \in 1..4 : contains(Chars[platforms[i]], name)}
        IN  /\ platforms = <<"windows", "cygin", "darwin", "bsd">>
            /\ Len(name) = Len(system)
            /\ \A i \in 1..Len(name) :
                  /\ \A k \in 1..26 : name[i] # Upper[k]
                  /\ name[i] # system[i] =>
                        \E k \in 1..26 : system[i] = Upper[k]
                                          /\ name[i] = Lower[k]
            /\ platform \in Platforms
            /\ hit = {} => platform = "linux"
            /\ \A i \in hit :
                  (\A j \in hit : i <= j) => platform = platforms[i]

\* C15 witness: the host name DarwinWindows contains darwin first and
\* windows after it, and is classified windows, the earlier tag of the list
C15_Witness ==
    /\ pc # "get_platform"
    /\ system = <<"D", "a", "r", "w", "i", "n",
                  "W", "i", "n", "d", "o", "w", "s">>
    /\ platform = "windows"

\* C16: for every tag the classifier returns, the default reload strategy
\* is defined: when main resolves the reload hook from no settings and
\* without --new-viewer, the hook is never absent, and it is the hard
\* restart for windows, the signal 29 (SIGINFO) for darwin and bsd, and
\* the signal 1 (SIGHUP) for the remaining tags, linux and cygin.
C16_EveryTagHasDefaultReloader ==
    (Resolved /\ ~newViewer /\ ~confExt) =>
        /\ reload_file \notin {None, Unset}
        /\ platform = "windows" => reload_file = Builtin("hard_restart")
        /\ platform \in {"darwin", "bsd"} => reload_file = <<"send_signal", 29>>
        /\ platform \notin {"windows", "darwin", "bsd"} =>
              /\ platform \in {"linux", "cygin"}
              /\ reload_file = <<"send_signal", 1>>

\* C16 witness: a host whose name contains cygin is classified cygin and
\* main has resolved its reload hook to the hangup signal
C16_Witness ==
    /\ Resolved
    /\ ~newViewer
    /\ ~confExt
    /\ platform = "cygin"
    /\ reload_file = send_signal(SIGHUP)

\* C17: a watch session with the platform's default launcher compiles
\* once, launches the viewer once, holds the handle of the viewer it
\* launched and goes on to poll: the launch does not fail (no TypeError
\* ends the session), and once the session is past the launch (no user
\* interrupt having stopped it before) the handle is bound to the one
\* viewer that was started.
C17_DefaultLaunchOnceThenPolls ==
    (action = "pvc" /\ IsDefaultLoader(load_file)) =>
        /\ exc # "TypeError"
        /\ (pc \notin {"get_platform", "main", "c_compile", "c_launch"}
               /\ exc # "KeyboardInterrupt") =>
              /\ NumCompile >= 1
              /\ NumLaunch = 1
              /\ Len(procs) = 1
              /\ proc = 1

\* C18: the one-second delay runs between any two consecutive polls: a
\* sleep is logged between any two polls that saw a difference, and
\* before any poll that follows another and saw none.
C18_DelayBetweenPolls ==
    LET Slept(l) == \E k \in 1..Len(l) : l[k][1] = "sleep"
    IN  /\ quiet => Slept(Iteration)
        /\ \A i \in 1..Len(log) : \A j \in (i + 1)..Len(log) :
              (IsChange(log[i]) /\ IsChange(log[j])) => Slept(SubSeq(log, i, j))

\* the handle the first Popen of the session returned (0 before it)
InitialHandle(l) ==
    IF \A i \in 1..Len(l) : l[i][1] # "Popen" THEN 0
    ELSE l[CHOOSE i \in 1..Len(l) :
              /\ l[i][1] = "Popen"
              /\ \A j \in 1..(i - 1) : l[j][1] # "Popen"][2]

\* C19: the loop's viewer handle is assigned once, by the initial launch,
\* and no step changes it afterwards, whatever a hook does to the process
\* or starts in its place; every pre-reload and reload hook call of the
\* session was made on that initial handle.
C19_HandleAssignedOnce ==
    [][/\ proc # 0 => proc' = proc
       /\ (proc = 0 /\ proc' # 0) => (pc = "c_launch" /\ proc' = InitialHandle(log'))
       /\ \A i \in 1..Len(log') :
             log'[i][1] \in {"pre_reload_file", "reload_file"} =>
                /\ log'[i][2] = proc'
                /\ log'[i][2] = InitialHandle(log')
                /\ log'[i][2] # 0]_vars

\* C19 witness: on windows the reload hook has replaced the viewer process
\* (the initial one is dead, a second was started), and the second change's
\* hooks were again called on the initial handle, which the loop still holds
C19_Witness ==
    /\ pc = "poll"
    /\ NumChanges = 2
    /\ NumReload = 2
    /\ Len(procs) >= 2
    /\ proc = 1
    /\ ~procs[1].alive
    /\ \A i \in 1..Len(log) :
          log[i][1] \in {"pre_reload_file", "reload_file"} => log[i][2] = 1

\* C20: the loop records the stat value it has just seen before it runs
\* the sequence: while the sequence runs, pre already holds the file's
\* current stat value.  So a user interrupt that cuts the sequence short
\* leaves pre at that value, and a poll that then sees the same value
\* starts nothing and makes no hook or compile call: what the interrupt
\* skipped runs only after the stat value has changed again.
C20_InterruptedSequenceIsNotRetried ==
    [][/\ pc' \in InnerTry => pre' = os_stat(meta')
       /\ (pc \in InnerTry /\ pc' = "poll") =>
             /\ pre' = pre
             /\ pre' = os_stat(meta')
       /\ (pc = "poll" /\ os_stat(meta) = pre) =>
             /\ pc' \notin InnerTry
             /\ SelectSeq(log', IsCall) = SelectSeq(log, IsCall)
       /\ (pc = "poll" /\ pc' \in InnerTry) =>
             /\ os_stat(meta) # pre
             /\ pc' = "pre_reload"]_vars

\* C20 witness: the first change's sequence was cut by an interrupt before
\* its reload, and a later poll has seen the same stat value and run
\* nothing: the reload is still missing
C20_Witness ==
    /\ pc = "poll"
    /\ quiet
    /\ pre = os_stat(meta)
    /\ NumChanges = 1
    /\ NumInnerInterrupts = 1
    /\ NumPreReload = 1
    /\ NumReload = 0

====
